---- MODULE Spec2Model ----
(***************************************************************************)
(* Model of the decision core of the scalping robot: the Risk Engine      *)
(* (risk_manager.py) and the Signal Engine (strategy.py), with the parts  *)
(* of the brokerage wrapper (tinkoff_client.py) the Risk Engine calls,    *)
(* and the scheduling loop with its trading cycle and its Telegram        *)
(* controls (main.py, telegram_bot.py).                                   *)
(*                                                                         *)
(* Python floats are modelled as exact rationals [k, n, d] in lowest      *)
(* terms; None and NaN are the tagged values None and NaN.  The indicator *)
(* library (pandas_ta) and the brokerage API are external: their answers  *)
(* are inputs drawn from small sets.                                       *)
(***************************************************************************)
EXTENDS Integers, Sequences, FiniteSets, TLC

VARIABLES
    daily_trade_counts,     \* RiskManager.daily_trade_counts: dict figi -> count
    instrument_info_cache,  \* TinkoffClient.instrument_info_cache: dict figi -> info
    call,                   \* the public operation called last, with its arguments
    result,                 \* what that operation handed back to its caller
    trace,                  \* collaborator / library calls made by that operation
    locals,                 \* local variables of that operation at its return
    recorded,               \* history: record_trade calls per figi since the last reset
    resetAfterLimit,        \* history: figis that were at the limit when the last reset ran
    trading_active,         \* main.trading_active: the global flag the Telegram thread sets
    top_instruments,        \* main.top_instruments: the figis chosen at start-up
    pc,                     \* where the coroutine main() stands in its while-loop
    cycle_idx,              \* trading_cycle: position of the for-loop in top_instruments
    events,                 \* what the trading cycle started last has done, in order
    last_cmd                \* history: the control function the Telegram thread called last

vars == <<daily_trade_counts, instrument_info_cache, call, result, trace, locals,
          recorded, resetAfterLimit, trading_active, top_instruments, pc, cycle_idx,
          events, last_cmd>>

\* the state of main.py, which the engines on their own leave alone
loopVars == <<trading_active, top_instruments, pc, cycle_idx, events, last_cmd>>

----------------------------------------------------------------------------
(* Bounds of the model *)

\* record_trade is not called once a counter holds this value
MaxCount == 6

----------------------------------------------------------------------------
(* Python values *)

None == [k |-> "None"]
NaN == [k |-> "NaN"]

Abs(x) == IF x < 0 THEN -x ELSE x

RECURSIVE GCD(_, _)
GCD(a, b) == IF b = 0 THEN a ELSE GCD(b, a % b)

\* the float n/d, in lowest terms with a positive denominator
Rat(n, d) ==
    LET g == GCD(Abs(n), Abs(d))
        s == IF d < 0 THEN -1 ELSE 1
    IN  [k |-> "num", n |-> (s * n) \div g, d |-> (s * d) \div g]

Num(n) == Rat(n, 1)

IsNum(x) == x.k = "num"

RatMul(a, b) == Rat(a.n * b.n, a.d * b.d)
RatDiv(a, b) == Rat(a.n * b.d, a.d * b.n)
RatAdd(a, b) == Rat(a.n * b.d + b.n * a.d, a.d * b.d)
RatSub(a, b) == Rat(a.n * b.d - b.n * a.d, a.d * b.d)
RatLt(a, b) == a.n * b.d < b.n * a.d
RatLe(a, b) == a.n * b.d <= b.n * a.d
\* Python max(a, b): b only when it is strictly greater
RatMax(a, b) == IF RatLt(a, b) THEN b ELSE a
RatMin(a, b) == IF RatLt(b, a) THEN b ELSE a
\* Python int(x): truncation toward zero
Trunc(a) == IF a.n >= 0 THEN a.n \div a.d ELSE -((-a.n) \div a.d)

Zero == Num(0)

----------------------------------------------------------------------------
(* config.py *)

RISK_PER_TRADE == Rat(1, 100)
MIN_STOP_LOSS_PERCENT == Rat(2, 1000)
STOP_LOSS_PERCENT == Rat(5, 1000)
TAKE_PROFIT_RATIO == Rat(2, 1)
ATR_STOP_MULTIPLIER == Rat(15, 10)
ATR_PERIOD == 14
MAX_POSITION_SHARE_PER_INSTRUMENT == Rat(2, 10)
MAX_TRADES_PER_INSTRUMENT_PER_DAY == 5
ADX_TREND_THRESHOLD == 25
ADX_PERIOD == 14
MIN_CANDLES_FOR_SIGNAL == 60
VOLUME_CONFIRMATION_WINDOW == 20
VOLUME_SPIKE_FACTOR == Rat(12, 10)
MA_FAST_PERIOD == 9
MA_SLOW_PERIOD == 21
BB_PERIOD == 20
BB_STD_DEV == 2
RSI_PERIOD == 14
RSI_OVERBOUGHT == 70
RSI_OVERSOLD == 30

----------------------------------------------------------------------------
(* Inputs *)

Figis == {"X", "Y"}

\* dict.get(key, default)
Get(dict, key, default) == IF key \in DOMAIN dict THEN dict[key] ELSE default

\* dict[key] = value
Put(dict, key, value) ==
    [x \in DOMAIN dict \cup {key} |-> IF x = key THEN value ELSE dict[x]]

EmptyDict == [x \in {} |-> 0]

\* A candles DataFrame, or None.  rows: number of rows; cols: the columns it
\* has; sorted: the index is in increasing order; bad: rows whose high, low or
\* close is missing or not numeric; vol: the volume column over the trailing
\* window of the rows that are not bad, in time order: prev_n of the bars
\* before the last have a number, these sum to prev_sum, last is the volume of
\* the last bar (NaN or a number), allnan: the whole column is NaN.
NoVol == [allnan |-> TRUE, prev_n |-> 0, prev_sum |-> 0, last |-> NaN]
NoFrame == [none |-> TRUE, rows |-> 0, cols |-> {}, sorted |-> TRUE, bad |-> 0,
            vol |-> NoVol]
SignalFrame(rows, cols, sorted, bad, vol) ==
    [none |-> FALSE, rows |-> rows, cols |-> cols, sorted |-> sorted, bad |-> bad,
     vol |-> vol]
Frame(rows, cols) == SignalFrame(rows, cols, TRUE, 0, NoVol)
OHLCV == {"open", "high", "low", "close", "volume"}

\* Python comparisons of floats: every comparison with NaN is False
PyLt(a, b) == IsNum(a) /\ IsNum(b) /\ RatLt(a, b)
PyGt(a, b) == PyLt(b, a)
PyGe(a, b) == IsNum(a) /\ IsNum(b) /\ RatLe(b, a)

\* round(x) to the nearest integer, ties to even
RoundHalfEven(x) ==
    LET q == x.n \div x.d
        rem == x.n - q * x.d
    IN  IF 2 * rem < x.d THEN q
        ELSE IF 2 * rem > x.d THEN q + 1
        ELSE IF q % 2 = 0 THEN q ELSE q + 1

\* format(x, ".0f") and format(x, ".2f"): the number the text shows
Fmt0(x) == IF IsNum(x) THEN Num(RoundHalfEven(x)) ELSE x
Fmt2(x) == IF IsNum(x) THEN Rat(RoundHalfEven(RatMul(x, Num(100))), 100) ELSE x

----------------------------------------------------------------------------
(* tinkoff_client.py: the two fetches the Risk Engine uses.  api is the   *)
(* answer of the brokerage API to this call: api.portfolio is ApiError or *)
(* the portfolio total, api.instrument is ApiError or Lot(n), api.atr is  *)
(* the answer of ta.atr.                                                   *)

ApiError == [k |-> "error"]
Lot(n) == [k |-> "info", lot |-> n]

\* quotation_to_decimal gives a Decimal; the fallback literal is a float
get_account_balance(api) ==
    IF api.portfolio.k = "error"
    THEN [val |-> Num(100000), ty |-> "float"]
    ELSE [val |-> api.portfolio, ty |-> "Decimal"]

get_instrument_info(cache, figi, api) ==
    IF figi \in DOMAIN cache
    THEN [info |-> cache[figi], cache |-> cache]
    ELSE IF api.instrument.k = "error"
         THEN [info |-> None, cache |-> cache]
         ELSE [info |-> api.instrument, cache |-> Put(cache, figi, api.instrument)]

----------------------------------------------------------------------------
(* risk_manager.py *)

\* atr_out is what ta.atr answers: [k |-> "raise"], None, [k |-> "empty"],
\* or the last value of the series (NaN or a number)
_calculate_volatility_risk(candles_df, atr_out) ==
    IF candles_df.none \/ candles_df.rows = 0 THEN None
    ELSE IF ~({"high", "low", "close"} \subseteq candles_df.cols) THEN None
    ELSE IF candles_df.rows < ATR_PERIOD THEN None
    ELSE IF atr_out.k = "raise" THEN None
    ELSE IF atr_out.k \in {"None", "empty"} THEN None
    ELSE IF atr_out.k = "NaN" \/ RatLe(atr_out, Zero) THEN None
    ELSE RatMul(atr_out, ATR_STOP_MULTIPLIER)

\* The name risk_amount is read at line 40 and bound nowhere, neither in the
\* function nor in the module: the read raises NameError.
risk_amount == [k |-> "unbound"]

\* line 30 with ">" for ">="
daily_limit_reached_gt(counts, figi) ==
    Get(counts, figi, 0) > MAX_TRADES_PER_INSTRUMENT_PER_DAY

\* line 30: the daily-limit check
daily_limit_reached(counts, figi) ==
    Get(counts, figi, 0) >= MAX_TRADES_PER_INSTRUMENT_PER_DAY

\* the except clause of calculate_position_size, and its other "return 0"
SizeRet(value, tr, cache) == [value |-> value, trace |-> tr, cache |-> cache]

calculate_position_size_unlimited(counts, cache, figi, last_price, candles_df, api) ==
    SizeRet(1, <<>>, cache)
calculate_position_size(counts, cache, figi, last_price, candles_df, api) ==
    IF daily_limit_reached(counts, figi)
    THEN SizeRet(0, <<>>, cache)
    ELSE
    LET account_balance == get_account_balance(api)
        t1 == <<"get_account_balance">>
    IN
    IF RatLe(account_balance.val, Zero) THEN SizeRet(0, t1, cache)
    ELSE IF risk_amount.k = "unbound" THEN SizeRet(0, t1, cache)   \* NameError
    ELSE IF RatLe(risk_amount, Zero) THEN SizeRet(0, t1, cache)
    ELSE
    LET fetched == get_instrument_info(cache, figi, api)
        instrument_info == fetched.info
        t2 == Append(t1, "get_instrument_info")
    IN
    IF instrument_info.k = "None" THEN SizeRet(0, t2, fetched.cache)
    ELSE
    LET lot_size == Num(instrument_info.lot) IN
    IF ~IsNum(last_price) THEN SizeRet(0, t2, fetched.cache)       \* TypeError
    ELSE
    LET lot_cost == RatMul(last_price, lot_size) IN
    IF lot_cost = Zero THEN SizeRet(0, t2, fetched.cache)
    ELSE
    LET base_risk == RatMul(last_price, RatMax(STOP_LOSS_PERCENT, MIN_STOP_LOSS_PERCENT))
        atr_risk == _calculate_volatility_risk(candles_df, api.atr)
        per_share_risk == IF atr_risk.k # "None" THEN RatMax(base_risk, atr_risk)
                          ELSE base_risk
    IN
    IF RatLe(per_share_risk, Zero) THEN SizeRet(0, t2, fetched.cache)
    ELSE
    LET position_size_by_risk ==
            Trunc(RatDiv(risk_amount, RatMul(per_share_risk, lot_size)))
    IN
    IF position_size_by_risk <= 0 THEN SizeRet(0, t2, fetched.cache)
    \* Decimal * float raises TypeError
    ELSE IF account_balance.ty = "Decimal" THEN SizeRet(0, t2, fetched.cache)
    ELSE
    LET max_position_value ==
            RatMul(account_balance.val, MAX_POSITION_SHARE_PER_INSTRUMENT)
    IN
    IF RatLe(max_position_value, Zero) THEN SizeRet(0, t2, fetched.cache)
    ELSE
    LET position_size_by_capital == Trunc(RatDiv(max_position_value, lot_cost))
        position_size_in_lots ==
            IF position_size_by_risk < position_size_by_capital
            THEN position_size_by_risk ELSE position_size_by_capital
    IN
    IF position_size_in_lots = 0 THEN SizeRet(0, t2, fetched.cache)
    ELSE SizeRet(position_size_in_lots, t2, fetched.cache)

\* lines 130-133 without the ATR widening
base_stop_distance_no_atr(entry_price, candles_df, atr_out) ==
    RatMul(entry_price, RatMax(STOP_LOSS_PERCENT, MIN_STOP_LOSS_PERCENT))

\* the stop distance of calculate_sl_tp, lines 130-133
base_stop_distance(entry_price, candles_df, atr_out) ==
    LET base == RatMul(entry_price, RatMax(STOP_LOSS_PERCENT, MIN_STOP_LOSS_PERCENT))
        atr_risk == _calculate_volatility_risk(candles_df, atr_out)
    IN  IF atr_risk.k # "None" THEN RatMax(base, atr_risk) ELSE base

\* lines 146-147 without the floor
floor_at_zero_missing(price) == price

\* lines 146-147: max(price, 0.0)
floor_at_zero(price) == RatMax(price, Zero)

\* raised: the exception leaves the function (it has no try block)
calculate_sl_tp(entry_price, direction, candles_df, atr_out) ==
    IF ~IsNum(entry_price)
    THEN [raised |-> TRUE, value |-> "TypeError"]    \* None * float, line 130
    ELSE
    LET dist == base_stop_distance(entry_price, candles_df, atr_out)
        take_profit_distance == RatMul(dist, TAKE_PROFIT_RATIO)
    IN
    IF direction = "BUY"
    THEN [raised |-> FALSE,
          value |-> <<floor_at_zero(RatSub(entry_price, dist)),
                      floor_at_zero(RatAdd(entry_price, take_profit_distance))>>]
    ELSE IF direction = "SELL"
    THEN [raised |-> FALSE,
          value |-> <<floor_at_zero(RatAdd(entry_price, dist)),
                      floor_at_zero(RatSub(entry_price, take_profit_distance))>>]
    ELSE [raised |-> FALSE, value |-> <<None, None>>]

\* line 153 adding 2
record_trade_twice(counts, figi) == Put(counts, figi, Get(counts, figi, 0) + 2)

\* line 153
record_trade(counts, figi) == Put(counts, figi, Get(counts, figi, 0) + 1)

\* line 21
reset_daily_counts(counts) == EmptyDict

----------------------------------------------------------------------------
(* Inputs of the Risk Engine operations *)

\* candles_df and the answer of ta.atr to it
AtrCases ==
    {<<NoFrame, None>>,
     <<Frame(0, OHLCV), None>>,
     <<Frame(ATR_PERIOD, {"open", "high", "low", "volume"}), None>>,
     <<Frame(ATR_PERIOD - 1, OHLCV), None>>}
    \cup {<<Frame(ATR_PERIOD, OHLCV), a>> :
            a \in {[k |-> "raise"], None, [k |-> "empty"], NaN,
                   Zero, Rat(1, 5), Num(100)}}

SizingAtrCases == {<<NoFrame, None>>, <<Frame(ATR_PERIOD, OHLCV), Num(100)>>}

Prices == {None, Zero, Rat(1, 100), Num(100)}
SizingPrices == {None, Zero, Num(100)}
Balances == {ApiError, Zero, Num(50000)}
Instruments == {ApiError, Lot(10)}
Directions == {"BUY", "SELL", "HOLD"}

NoLocals == [op |-> "none"]

\* the engines called on their own: main() is not running
NoLoop ==
    /\ trading_active = FALSE
    /\ top_instruments = <<>>
    /\ pc = "off"
    /\ cycle_idx = 0
    /\ events = <<>>
    /\ last_cmd = "none"

----------------------------------------------------------------------------
(* The Risk Engine as a state machine: one action per public operation *)

Init ==
    /\ daily_trade_counts = EmptyDict
    /\ instrument_info_cache = EmptyDict
    /\ call = [op |-> "init"]
    /\ result = [raised |-> FALSE, value |-> None]
    /\ trace = <<>>
    /\ locals = NoLocals
    /\ recorded = [f \in Figis |-> 0]
    /\ resetAfterLimit = {}
    /\ NoLoop

RecordTrade ==
    \E figi \in Figis :
        /\ Get(daily_trade_counts, figi, 0) < MaxCount
        /\ daily_trade_counts' = record_trade(daily_trade_counts, figi)
        /\ call' = [op |-> "record_trade", figi |-> figi]
        /\ result' = [raised |-> FALSE, value |-> None]
        /\ trace' = <<>>
        /\ locals' = NoLocals
        /\ recorded' = [recorded EXCEPT ![figi] = @ + 1]
        /\ UNCHANGED <<instrument_info_cache, resetAfterLimit>>
        /\ UNCHANGED loopVars

ResetDailyCounts ==
    /\ daily_trade_counts' = reset_daily_counts(daily_trade_counts)
    /\ call' = [op |-> "reset_daily_counts"]
    /\ result' = [raised |-> FALSE, value |-> None]
    /\ trace' = <<>>
    /\ locals' = NoLocals
    /\ recorded' = [f \in Figis |-> 0]
    /\ resetAfterLimit' =
           {f \in Figis : recorded[f] >= MAX_TRADES_PER_INSTRUMENT_PER_DAY}
    /\ UNCHANGED instrument_info_cache
    /\ UNCHANGED loopVars

CalculatePositionSize ==
    \E figi \in Figis, last_price \in SizingPrices, c \in SizingAtrCases,
       portfolio \in Balances, instrument \in Instruments :
        LET api == [portfolio |-> portfolio, instrument |-> instrument, atr |-> c[2]]
            r == calculate_position_size(daily_trade_counts, instrument_info_cache,
                                         figi, last_price, c[1], api)
        IN  /\ call' = [op |-> "calculate_position_size", figi |-> figi,
                        last_price |-> last_price, candles_df |-> c[1], api |-> api]
            /\ result' = [raised |-> FALSE, value |-> r.value]
            /\ trace' = r.trace
            /\ instrument_info_cache' = r.cache
            /\ locals' = NoLocals
            /\ UNCHANGED <<daily_trade_counts, recorded, resetAfterLimit>>
            /\ UNCHANGED loopVars

CalculateSlTp ==
    \E entry_price \in Prices, direction \in Directions, c \in AtrCases :
        /\ call' = [op |-> "calculate_sl_tp", entry_price |-> entry_price,
                    direction |-> direction, candles_df |-> c[1], atr |-> c[2]]
        /\ result' = calculate_sl_tp(entry_price, direction, c[1], c[2])
        /\ trace' = <<>>
        /\ locals' = NoLocals
        /\ UNCHANGED <<daily_trade_counts, instrument_info_cache, recorded,
                       resetAfterLimit>>
        /\ UNCHANGED loopVars

Next == RecordTrade \/ ResetDailyCounts \/ CalculatePositionSize \/ CalculateSlTp

Spec == Init /\ [][Next]_vars

----------------------------------------------------------------------------
(* Claims about the Risk Engine, checked under Spec *)

IsSizing == call.op = "calculate_position_size"
IsSlTp == call.op = "calculate_sl_tp"

\* the ATR risk "if computable": the frame has the three price columns and at
\* least ATR_PERIOD rows, and the last ATR value is a positive number
AtrComputable(candles_df, atr) ==
    /\ ~candles_df.none
    /\ candles_df.rows >= ATR_PERIOD
    /\ {"high", "low", "close"} \subseteq candles_df.cols
    /\ atr.k = "num"
    /\ RatLt(Zero, atr)

\* the stop percentage the spec names: max(stop_loss_percent, min_stop_loss_percent)
StopPercent ==
    IF RatLt(STOP_LOSS_PERCENT, MIN_STOP_LOSS_PERCENT)
    THEN MIN_STOP_LOSS_PERCENT ELSE STOP_LOSS_PERCENT

\* the per-share risk / stop distance of spec 4.6 step 4 and 4.7
SpecDistance(price, candles_df, atr) ==
    LET flat == RatMul(price, StopPercent)
        wide == RatMul(atr, ATR_STOP_MULTIPLIER)
    IN  IF AtrComputable(candles_df, atr) /\ RatLt(flat, wide) THEN wide ELSE flat

\* the balance and lot size the collaborator hands to the sizing call
SizingBalance == get_account_balance(call.api).val
SizingInfo == get_instrument_info(instrument_info_cache, call.figi, call.api).info

\* spec 4.6 steps 3-8
SpecSize ==
    LET lot == Num(SizingInfo.lot)
        psr == SpecDistance(call.last_price, call.candles_df, call.api.atr)
        byRisk == RatDiv(RatMul(SizingBalance, RISK_PER_TRADE), RatMul(psr, lot))
        byCapital == RatDiv(RatMul(SizingBalance, MAX_POSITION_SHARE_PER_INSTRUMENT),
                            RatMul(call.last_price, lot))
        fr == byRisk.n \div byRisk.d
        fc == byCapital.n \div byCapital.d
        m == IF fr < fc THEN fr ELSE fc
    IN  IF m > 0 THEN m ELSE 0

SizingPreconditions ==
    /\ IsSizing
    /\ Get(daily_trade_counts, call.figi, 0) < MAX_TRADES_PER_INSTRUMENT_PER_DAY
    /\ RatLt(Zero, SizingBalance)
    /\ SizingInfo.k = "info"
    /\ IsNum(call.last_price)
    /\ RatLt(Zero, call.last_price)      \* the quotient by price * lot is defined
    /\ RatLt(Zero, SpecDistance(call.last_price, call.candles_df, call.api.atr))

\* C1: a sizing call below the daily limit, with a positive balance, instrument
\* metadata and a positive per-share risk returns min(floor(balance * risk_per_trade
\* / (per_share_risk * lot)), floor(balance * max_share / (price * lot))), or 0
\* when that minimum is not positive.
C1_SizingFormula == SizingPreconditions => result.value = SpecSize

\* C2: once record_trade(X) ran max_trades_per_day times or more since the last
\* reset, a sizing call for X returns 0 and queries neither the balance nor the
\* instrument metadata.
C2_LimitForcesZero ==
    (IsSizing /\ recorded[call.figi] >= MAX_TRADES_PER_INSTRUMENT_PER_DAY)
        => (result.value = 0 /\ ~result.raised /\ trace = <<>>)

C2_Witness ==
    /\ IsSizing
    /\ recorded[call.figi] = MAX_TRADES_PER_INSTRUMENT_PER_DAY
    /\ call.api.portfolio = Num(50000)
    /\ call.last_price = Num(100)
    /\ result.value = 0
    /\ trace = <<>>

\* C3: after X reached the daily limit and reset_daily_counts ran, a sizing call
\* for X returns the normal sizing result, a positive lot count whenever both
\* caps allow at least one lot.
C3_ResetRestoresSizing ==
    (SizingPreconditions /\ call.figi \in resetAfterLimit /\ SpecSize >= 1)
        => (result.value = SpecSize /\ result.value > 0)

\* C4: the Daily Trade Counter changes only through record_trade (+1 for that
\* instrument, the others unchanged) and reset_daily_counts (empty map); the two
\* calculations leave it unchanged; a count never decreases except on a reset
\* and is never negative.
C4_CounterMutators ==
    [][ /\ call'.op = "record_trade" =>
              \A f \in Figis :
                  Get(daily_trade_counts', f, 0) =
                      Get(daily_trade_counts, f, 0) + (IF f = call'.figi THEN 1 ELSE 0)
        /\ call'.op = "reset_daily_counts" => daily_trade_counts' = EmptyDict
        /\ call'.op \in {"calculate_position_size", "calculate_sl_tp"} =>
              daily_trade_counts' = daily_trade_counts
        /\ \A f \in Figis :
              /\ Get(daily_trade_counts', f, 0) >= 0
              /\ Get(daily_trade_counts', f, 0) < Get(daily_trade_counts, f, 0)
                    => call'.op = "reset_daily_counts"
      ]_vars

C4_Witness ==
    /\ call.op = "record_trade"
    /\ call.figi = "X"
    /\ Get(daily_trade_counts, "X", 0) = 3
    /\ Get(daily_trade_counts, "Y", 0) = 2

\* C5: for a positive entry price, with or without ATR widening, BUY gives
\* stop_loss < entry < take_profit, SELL gives take_profit < entry < stop_loss,
\* and neither price is negative.
C5_StopLevelsOrdered ==
    (IsSlTp /\ IsNum(call.entry_price) /\ RatLt(Zero, call.entry_price)
            /\ call.direction \in {"BUY", "SELL"})
        => /\ ~result.raised
           /\ LET sl == result.value[1]
                  tp == result.value[2]
                  entry == call.entry_price
              IN  /\ IsNum(sl) /\ IsNum(tp)
                  /\ call.direction = "BUY" => (RatLt(sl, entry) /\ RatLt(entry, tp))
                  /\ call.direction = "SELL" => (RatLt(tp, entry) /\ RatLt(entry, sl))
                  /\ RatLe(Zero, sl) /\ RatLe(Zero, tp)

\* an ATR distance wider than the entry price: the floor at zero acts
C5_Witness ==
    /\ IsSlTp
    /\ call.direction = "SELL"
    /\ call.entry_price = Rat(1, 100)
    /\ AtrComputable(call.candles_df, call.atr)
    /\ call.atr = Num(100)
    /\ result.value[2] = Zero

\* C6: with d = max(entry * max(stop_loss_percent, min_stop_loss_percent), ATR
\* risk if computable), BUY returns (max(entry - d, 0), max(entry + d * ratio, 0))
\* and SELL (max(entry + d, 0), max(entry - d * ratio, 0)); entry 100, BUY, no
\* ATR gives (99.5, 101.0).
C6_StopLevelsFormula ==
    (IsSlTp /\ IsNum(call.entry_price) /\ call.direction \in {"BUY", "SELL"})
        => LET entry == call.entry_price
               d == SpecDistance(entry, call.candles_df, call.atr)
               t == RatMul(d, TAKE_PROFIT_RATIO)
               AtLeastZero(x) == IF RatLt(x, Zero) THEN Zero ELSE x
           IN  /\ call.direction = "BUY" =>
                     result.value = <<AtLeastZero(RatSub(entry, d)),
                                      AtLeastZero(RatAdd(entry, t))>>
               /\ call.direction = "SELL" =>
                     result.value = <<AtLeastZero(RatAdd(entry, d)),
                                      AtLeastZero(RatSub(entry, t))>>
               /\ (entry = Num(100) /\ call.direction = "BUY"
                     /\ ~AtrComputable(call.candles_df, call.atr))
                     => result.value = <<Rat(995, 10), Num(101)>>

C6_Witness ==
    /\ IsSlTp
    /\ call.direction = "BUY"
    /\ call.entry_price = Num(100)
    /\ call.candles_df = NoFrame
    /\ result.value = <<Rat(995, 10), Num(101)>>

\* an ATR distance that widens the stop: entry 100, ATR 100, distance 150
C6_WitnessAtr ==
    /\ IsSlTp
    /\ call.direction = "SELL"
    /\ call.entry_price = Num(100)
    /\ call.atr = Num(100)
    /\ result.value = <<Num(250), Zero>>

\* C7: no public operation of the core lets an internal error escape to its
\* caller, for any input including malformed bars and null prices.
C7_NoErrorEscapes == ~result.raised

----------------------------------------------------------------------------
(* strategy.py.  The answers of the indicator library are arguments:      *)
(*   adx_out: [k |-> "raise"], None, [k |-> "empty"], [k |-> "nocol"], or  *)
(*            the ADX_14 value of the last row (NaN or a number);          *)
(*   sma_out: [k |-> "raise"], or [k |-> "ok"] with fast_none, slow_none   *)
(*            (ta.sma answered None) and the last two values of each       *)
(*            series;                                                      *)
(*   bb_out:  [k |-> "raise"], or [k |-> "ok"] with bb_none, rsi_none,     *)
(*            has_cols and the last lower band, upper band and RSI.        *)
(* A reason is a record: kind names the text, the other fields are the     *)
(* numbers formatted into it.                                              *)

Reason(kind) == [kind |-> kind]

HLC == {"high", "low", "close"}

\* lines 18-53
get_market_regime(candles_df, adx_out) ==
    IF candles_df.none \/ candles_df.rows = 0
    THEN [value |-> "UNKNOWN", trace |-> <<>>]
    ELSE IF candles_df.rows < ADX_PERIOD + 1
    THEN [value |-> "UNKNOWN", trace |-> <<>>]
    ELSE IF ~(HLC \subseteq candles_df.cols)
    THEN [value |-> "UNKNOWN", trace |-> <<>>]            \* KeyError, caught
    ELSE IF adx_out.k = "raise"
    THEN [value |-> "UNKNOWN", trace |-> <<"adx">>]       \* caught
    ELSE IF adx_out.k \in {"None", "empty"}
    THEN [value |-> "UNKNOWN", trace |-> <<"adx">>]
    ELSE IF adx_out.k = "nocol"
    THEN [value |-> "UNKNOWN", trace |-> <<"adx">>]
    ELSE IF PyGt(adx_out, Num(ADX_TREND_THRESHOLD))
    THEN [value |-> "TREND", trace |-> <<"adx">>]
    ELSE [value |-> "RANGE", trace |-> <<"adx">>]

\* line 105
crossed_up(prev_fast, prev_slow, last_fast, last_slow) ==
    PyLt(prev_fast, prev_slow) /\ PyGt(last_fast, last_slow)

\* line 108
crossed_down(prev_fast, prev_slow, last_fast, last_slow) ==
    PyGt(prev_fast, prev_slow) /\ PyLt(last_fast, last_slow)

\* lines 80-114
_ma_crossover_signal(candles_df, sma_out) ==
    IF candles_df.rows < MA_SLOW_PERIOD + 2
    THEN [value |-> <<"HOLD", Reason("not enough data for MA")>>, trace |-> <<>>]
    ELSE IF "close" \notin candles_df.cols
    THEN [value |-> <<"HOLD", Reason("MA error")>>, trace |-> <<>>]
    ELSE IF sma_out.k = "raise"
    THEN [value |-> <<"HOLD", Reason("MA error")>>, trace |-> <<"sma">>]
    ELSE IF sma_out.fast_none \/ sma_out.slow_none
    THEN [value |-> <<"HOLD", Reason("MA not computed")>>, trace |-> <<"sma">>]
    ELSE IF \E v \in {sma_out.last_fast, sma_out.last_slow,
                      sma_out.prev_fast, sma_out.prev_slow} : v.k = "NaN"
    THEN [value |-> <<"HOLD", Reason("MA has gaps")>>, trace |-> <<"sma">>]
    ELSE IF crossed_up(sma_out.prev_fast, sma_out.prev_slow,
                       sma_out.last_fast, sma_out.last_slow)
    THEN [value |-> <<"BUY", [kind |-> "MA cross up", fast |-> MA_FAST_PERIOD,
                              slow |-> MA_SLOW_PERIOD]>>,
          trace |-> <<"sma">>]
    ELSE IF crossed_down(sma_out.prev_fast, sma_out.prev_slow,
                         sma_out.last_fast, sma_out.last_slow)
    THEN [value |-> <<"SELL", [kind |-> "MA cross down", fast |-> MA_FAST_PERIOD,
                               slow |-> MA_SLOW_PERIOD]>>,
          trace |-> <<"sma">>]
    ELSE [value |-> <<"HOLD", Reason("no MA cross")>>, trace |-> <<"sma">>]

\* line 146 without the RSI condition
range_buy_price_only(last_price, lower_band, rsi) == PyLt(last_price, lower_band)

\* line 146
range_buy(last_price, lower_band, rsi) ==
    PyLt(last_price, lower_band) /\ PyLt(rsi, Num(RSI_OVERSOLD))

\* line 149
range_sell(last_price, upper_band, rsi) ==
    PyGt(last_price, upper_band) /\ PyGt(rsi, Num(RSI_OVERBOUGHT))

\* lines 116-155
_bb_rsi_signal(candles_df, last_price, bb_out) ==
    IF candles_df.rows < BB_PERIOD + RSI_PERIOD
    THEN [value |-> <<"HOLD", Reason("not enough data for BB+RSI")>>, trace |-> <<>>]
    ELSE IF "close" \notin candles_df.cols
    THEN [value |-> <<"HOLD", Reason("BB+RSI error")>>, trace |-> <<>>]
    ELSE IF bb_out.k = "raise"
    THEN [value |-> <<"HOLD", Reason("BB+RSI error")>>, trace |-> <<"bbands", "rsi">>]
    ELSE IF bb_out.bb_none \/ bb_out.rsi_none
    THEN [value |-> <<"HOLD", Reason("BB or RSI not computed")>>,
          trace |-> <<"bbands", "rsi">>]
    ELSE IF ~bb_out.has_cols
    THEN [value |-> <<"HOLD", Reason("BB columns missing")>>,
          trace |-> <<"bbands", "rsi">>]
    ELSE IF \E v \in {bb_out.lower_band, bb_out.upper_band, bb_out.rsi} : v.k = "NaN"
    THEN [value |-> <<"HOLD", Reason("BB or RSI has gaps")>>,
          trace |-> <<"bbands", "rsi">>]
    ELSE IF last_price.k = "None"                     \* None < float: TypeError, caught
    THEN [value |-> <<"HOLD", Reason("BB+RSI error")>>, trace |-> <<"bbands", "rsi">>]
    ELSE IF range_buy(last_price, bb_out.lower_band, bb_out.rsi)
    THEN [value |-> <<"BUY", [kind |-> "price below BB and RSI oversold",
                              price |-> Fmt2(last_price),
                              band |-> Fmt2(bb_out.lower_band),
                              rsi |-> Fmt2(bb_out.rsi)]>>,
          trace |-> <<"bbands", "rsi">>]
    ELSE IF range_sell(last_price, bb_out.upper_band, bb_out.rsi)
    THEN [value |-> <<"SELL", [kind |-> "price above BB and RSI overbought",
                               price |-> Fmt2(last_price),
                               band |-> Fmt2(bb_out.upper_band),
                               rsi |-> Fmt2(bb_out.rsi)]>>,
          trace |-> <<"bbands", "rsi">>]
    ELSE [value |-> <<"HOLD", Reason("no BB+RSI signal")>>, trace |-> <<"bbands", "rsi">>]

\* lines 157-171 without the dropna of line 169 removing rows
_prepare_dataframe_keeps_rows(candles_df) ==
    IF candles_df.none \/ candles_df.rows = 0
    THEN [raised |-> FALSE, value |-> NoFrame]
    ELSE IF ~(HLC \subseteq candles_df.cols)
    THEN [raised |-> TRUE, value |-> "KeyError"]
    ELSE [raised |-> FALSE, value |-> [candles_df EXCEPT !.sorted = TRUE]]

\* lines 157-171.  raised: dropna(subset=...) names a column the frame lacks
_prepare_dataframe(candles_df) ==
    IF candles_df.none \/ candles_df.rows = 0
    THEN [raised |-> FALSE, value |-> NoFrame]
    ELSE IF ~(HLC \subseteq candles_df.cols)
    THEN [raised |-> TRUE, value |-> "KeyError"]
    ELSE LET df == [candles_df EXCEPT !.sorted = TRUE,
                                      !.rows = candles_df.rows - candles_df.bad,
                                      !.bad = 0]
         IN  IF df.rows = 0 THEN [raised |-> FALSE, value |-> NoFrame]
             ELSE [raised |-> FALSE, value |-> df]

\* line 192 with ">" for ">="
volume_spike_strict(last_volume, required) == PyGt(last_volume, required)

\* line 192: required is avg_volume * VOLUME_SPIKE_FACTOR
volume_spike(last_volume, required) == PyGe(last_volume, required)

\* lines 173-194
_volume_confirmation(candles_df) ==
    IF "volume" \notin candles_df.cols \/ candles_df.vol.allnan
    THEN <<TRUE, None>>
    ELSE
    LET window == IF VOLUME_CONFIRMATION_WINDOW < candles_df.rows
                  THEN VOLUME_CONFIRMATION_WINDOW ELSE candles_df.rows
    IN
    IF window < 3 THEN <<TRUE, None>>
    ELSE
    LET avg_volume == IF candles_df.vol.prev_n = 0 THEN NaN
                      ELSE Rat(candles_df.vol.prev_sum, candles_df.vol.prev_n)
        last_volume == candles_df.vol.last
    IN
    IF avg_volume = Zero THEN <<TRUE, None>>
    ELSE
    LET required == IF IsNum(avg_volume) THEN RatMul(avg_volume, VOLUME_SPIKE_FACTOR)
                    ELSE NaN
        is_confirmed == volume_spike(last_volume, required)
        reason == [kind |-> "volume below required", volume |-> Fmt0(last_volume),
                   required |-> Fmt0(required)]
    IN  IF is_confirmed THEN <<TRUE, None>> ELSE <<FALSE, reason>>

\* lines 73-78 without the rejection
apply_volume_filter_ignored(signal, reason, confirmation) == <<signal, reason>>

\* lines 73-78: confirmation is the answer of _volume_confirmation, or
\* [k |-> "not called"] when the signal is HOLD
apply_volume_filter(signal, reason, confirmation) ==
    IF signal \in {"BUY", "SELL"} /\ ~confirmation[1]
    THEN <<"HOLD", [kind |-> "rejected by volume filter", volume_reason |-> confirmation[2]]>>
    ELSE <<signal, reason>>

NotCalled == <<TRUE, [k |-> "not called"]>>

SignalLocals(prepared_df, regime, rule, confirmation) ==
    [op |-> "get_signal", prepared_df |-> prepared_df, regime |-> regime,
     signal |-> rule[1], reason |-> rule[2],
     volume_confirmed |-> confirmation[1], volume_reason |-> confirmation[2]]

NoRule == <<"none", Reason("none")>>

\* lines 66-69 with the two rules exchanged
dispatch_rule_swapped(regime, prepared_df, last_price, lib) ==
    IF regime = "TREND"
    THEN _bb_rsi_signal(prepared_df, last_price, lib.bb)
    ELSE _ma_crossover_signal(prepared_df, lib.sma)

\* lines 66-69: the rule of the regime, TREND or RANGE
dispatch_rule(regime, prepared_df, last_price, lib) ==
    IF regime = "TREND"
    THEN _ma_crossover_signal(prepared_df, lib.sma)
    ELSE _bb_rsi_signal(prepared_df, last_price, lib.bb)

\* lines 55-78.  lib holds the answers of the indicator library.
get_signal(candles_df, last_price, lib) ==
    LET prepared == _prepare_dataframe(candles_df) IN
    IF prepared.raised
    THEN [raised |-> TRUE, value |-> prepared.value, trace |-> <<>>,
          locals |-> NoLocals]
    ELSE
    LET prepared_df == prepared.value IN
    IF prepared_df.none \/ prepared_df.rows < MIN_CANDLES_FOR_SIGNAL
    THEN [raised |-> FALSE, value |-> <<"HOLD", Reason("not enough data")>>,
          trace |-> <<>>,
          locals |-> SignalLocals(prepared_df, "none", NoRule, NotCalled)]
    ELSE
    LET regime == get_market_regime(prepared_df, lib.adx) IN
    IF regime.value \notin {"TREND", "RANGE"}
    THEN [raised |-> FALSE, value |-> <<"HOLD", Reason("regime unknown")>>,
          trace |-> regime.trace,
          locals |-> SignalLocals(prepared_df, regime.value, NoRule, NotCalled)]
    ELSE
    LET rule == dispatch_rule(regime.value, prepared_df, last_price, lib)
        called == rule.value[1] \in {"BUY", "SELL"}
        confirmation == IF called THEN _volume_confirmation(prepared_df)
                        ELSE NotCalled
    IN  [raised |-> FALSE,
         value |-> apply_volume_filter(rule.value[1], rule.value[2], confirmation),
         trace |-> regime.trace \o rule.trace
                   \o (IF called THEN <<"volume">> ELSE <<>>),
         locals |-> SignalLocals(prepared_df, regime.value, rule.value, confirmation)]

----------------------------------------------------------------------------
(* Inputs of the Signal Engine operations *)

\* the trailing window of a frame of at least VOLUME_CONFIRMATION_WINDOW rows:
\* 19 bars before the last
Vols ==
    {NoVol,
     [allnan |-> FALSE, prev_n |-> 0, prev_sum |-> 0, last |-> Num(5)],
     [allnan |-> FALSE, prev_n |-> VOLUME_CONFIRMATION_WINDOW - 1, prev_sum |-> 0,
      last |-> Num(5)]}
    \cup {[allnan |-> FALSE, prev_n |-> VOLUME_CONFIRMATION_WINDOW - 1,
           prev_sum |-> 10 * (VOLUME_CONFIRMATION_WINDOW - 1), last |-> l] :
            l \in {NaN, Num(11), Num(12), Num(13)}}

OkFrames ==
    {SignalFrame(MIN_CANDLES_FOR_SIGNAL, OHLCV, TRUE, 0, v) : v \in Vols}
    \cup {SignalFrame(MIN_CANDLES_FOR_SIGNAL + 1, OHLCV, FALSE, 1, v) : v \in Vols}
    \cup {SignalFrame(MIN_CANDLES_FOR_SIGNAL, OHLCV \ {"volume"}, TRUE, 0, NoVol),
          SignalFrame(MIN_CANDLES_FOR_SIGNAL + 1, OHLCV \ {"volume"}, FALSE, 1, NoVol)}

ShortFrames ==
    {NoFrame,
     SignalFrame(0, OHLCV, TRUE, 0, NoVol),
     SignalFrame(2, OHLCV, TRUE, 2, NoVol),
     SignalFrame(MIN_CANDLES_FOR_SIGNAL - 1, OHLCV, TRUE, 0, NoVol),
     SignalFrame(MIN_CANDLES_FOR_SIGNAL, OHLCV, FALSE, 1, NoVol)}

BrokenFrames ==
    {SignalFrame(MIN_CANDLES_FOR_SIGNAL, OHLCV \ {"close"}, TRUE, 0, NoVol),
     SignalFrame(MIN_CANDLES_FOR_SIGNAL, {"open", "volume"}, TRUE, 0, NoVol)}

AdxFailures == {[k |-> "raise"], None, [k |-> "empty"], [k |-> "nocol"]}
AdxOuts == AdxFailures \cup {NaN, Num(ADX_TREND_THRESHOLD - 1),
                             Num(ADX_TREND_THRESHOLD), Num(ADX_TREND_THRESHOLD + 1)}

SmaValues == {NaN, Num(1), Num(2), Num(3)}
SmaOk(fn, sn, pf, ps, lf, ls) ==
    [k |-> "ok", fast_none |-> fn, slow_none |-> sn, prev_fast |-> pf,
     prev_slow |-> ps, last_fast |-> lf, last_slow |-> ls]
DefaultSma == SmaOk(FALSE, FALSE, NaN, NaN, NaN, NaN)
SmaOuts ==
    {[k |-> "raise"], SmaOk(TRUE, FALSE, NaN, NaN, NaN, NaN),
     SmaOk(FALSE, TRUE, NaN, NaN, NaN, NaN)}
    \cup {SmaOk(FALSE, FALSE, pf, ps, lf, ls) :
            pf \in SmaValues, ps \in SmaValues, lf \in SmaValues, ls \in SmaValues}

BbOk(bn, rn, hc, lower, upper, rsi) ==
    [k |-> "ok", bb_none |-> bn, rsi_none |-> rn, has_cols |-> hc,
     lower_band |-> lower, upper_band |-> upper, rsi |-> rsi]
DefaultBb == BbOk(FALSE, FALSE, TRUE, NaN, NaN, NaN)
BbOuts ==
    {[k |-> "raise"], BbOk(TRUE, FALSE, TRUE, NaN, NaN, NaN),
     BbOk(FALSE, TRUE, TRUE, NaN, NaN, NaN), BbOk(FALSE, FALSE, FALSE, NaN, NaN, NaN)}
    \cup {BbOk(FALSE, FALSE, TRUE, lower, upper, rsi) :
            lower \in {NaN, Num(10)}, upper \in {NaN, Num(20)},
            rsi \in {NaN, Num(RSI_OVERSOLD - 1), Num(RSI_OVERSOLD),
                     Num(RSI_OVERBOUGHT), Num(RSI_OVERBOUGHT + 1)}}

LastPrices == {None, Num(9), Num(10), Num(15), Num(20), Num(21)}

Lib(adx, sma, bb) == [adx |-> adx, sma |-> sma, bb |-> bb]
Scenario(f, p, lib) == [candles_df |-> f, last_price |-> p, lib |-> lib]

\* the answers of the library that get_signal does not ask for are left at
\* their defaults
SignalScenarios ==
    {Scenario(f, Num(10), Lib(Num(ADX_TREND_THRESHOLD + 1), DefaultSma, DefaultBb)) :
        f \in ShortFrames \cup BrokenFrames}
    \cup {Scenario(f, Num(10), Lib(a, DefaultSma, DefaultBb)) :
            f \in OkFrames, a \in AdxFailures}
    \cup {Scenario(f, p, Lib(Num(ADX_TREND_THRESHOLD + 1), s, DefaultBb)) :
            f \in OkFrames, p \in {None, Num(10)}, s \in SmaOuts}
    \cup {Scenario(f, p, Lib(a, DefaultSma, b)) :
            f \in OkFrames, p \in LastPrices,
            a \in {NaN, Num(ADX_TREND_THRESHOLD)}, b \in BbOuts}

RegimeFrames ==
    {NoFrame, Frame(0, OHLCV), Frame(ADX_PERIOD, OHLCV), Frame(ADX_PERIOD + 1, OHLCV),
     Frame(ADX_PERIOD + 1, OHLCV \ {"high"}), Frame(MIN_CANDLES_FOR_SIGNAL, OHLCV)}

MaFrames ==
    {Frame(MA_SLOW_PERIOD + 1, OHLCV), Frame(MA_SLOW_PERIOD + 2, OHLCV),
     Frame(MA_SLOW_PERIOD + 2, OHLCV \ {"close"}), Frame(MIN_CANDLES_FOR_SIGNAL, OHLCV)}

BbFrames ==
    {Frame(BB_PERIOD + RSI_PERIOD - 1, OHLCV), Frame(BB_PERIOD + RSI_PERIOD, OHLCV),
     Frame(MIN_CANDLES_FOR_SIGNAL, OHLCV)}

\* the volume column over a trailing window of w bars: w - 1 bars before the last
WindowVols(w) ==
    {NoVol,
     [allnan |-> FALSE, prev_n |-> 0, prev_sum |-> 0, last |-> Num(5)],
     [allnan |-> FALSE, prev_n |-> w - 1, prev_sum |-> 0, last |-> Num(5)]}
    \cup {[allnan |-> FALSE, prev_n |-> n, prev_sum |-> 10 * n, last |-> l] :
            n \in {1, w - 1}, l \in {NaN, Zero, Num(11), Num(12), Num(13)}}
    \cup {[allnan |-> FALSE, prev_n |-> w - 1, prev_sum |-> 10 * (w - 1) + 1, last |-> l] :
            l \in {Num(12), Num(13)}}

VolumeFrames ==
    {SignalFrame(2, OHLCV, TRUE, 0, v) : v \in WindowVols(2)}
    \cup {SignalFrame(3, OHLCV, TRUE, 0, v) : v \in WindowVols(3)}
    \cup {SignalFrame(r, OHLCV, TRUE, 0, v) :
            r \in {VOLUME_CONFIRMATION_WINDOW, MIN_CANDLES_FOR_SIGNAL},
            v \in WindowVols(VOLUME_CONFIRMATION_WINDOW)}
    \cup {SignalFrame(MIN_CANDLES_FOR_SIGNAL, OHLCV \ {"volume"}, TRUE, 0, NoVol)}

----------------------------------------------------------------------------
(* The Signal Engine owns no state: a behaviour is one call.  The initial *)
(* state holds the call and its arguments, the action of the operation    *)
(* called runs it.                                                         *)

Pending == [op |-> "pending"]

SignalCalls ==
    {[op |-> "get_signal", candles_df |-> sc.candles_df,
      last_price |-> sc.last_price, lib |-> sc.lib] : sc \in SignalScenarios}
    \cup {[op |-> "get_market_regime", candles_df |-> f, adx |-> a] :
            f \in RegimeFrames, a \in AdxOuts}
    \cup {[op |-> "_ma_crossover_signal", candles_df |-> f, sma |-> s] :
            f \in MaFrames, s \in SmaOuts}
    \cup {[op |-> "_bb_rsi_signal", candles_df |-> f, last_price |-> p, bb |-> b] :
            f \in BbFrames, p \in LastPrices, b \in BbOuts}
    \cup {[op |-> "_volume_confirmation", candles_df |-> f] : f \in VolumeFrames}

InitSignal ==
    /\ daily_trade_counts = EmptyDict
    /\ instrument_info_cache = EmptyDict
    /\ call \in SignalCalls
    /\ result = [raised |-> FALSE, value |-> None]
    /\ trace = <<>>
    /\ locals = Pending
    /\ recorded = [f \in Figis |-> 0]
    /\ resetAfterLimit = {}
    /\ NoLoop

RiskUnchanged ==
    /\ UNCHANGED <<daily_trade_counts, instrument_info_cache, recorded, resetAfterLimit>>
    /\ UNCHANGED loopVars

GetSignal ==
    /\ locals = Pending
    /\ call.op = "get_signal"
    /\ LET r == get_signal(call.candles_df, call.last_price, call.lib)
       IN  /\ result' = [raised |-> r.raised, value |-> r.value]
           /\ trace' = r.trace
           /\ locals' = r.locals
    /\ UNCHANGED call
    /\ RiskUnchanged

GetMarketRegime ==
    /\ locals = Pending
    /\ call.op = "get_market_regime"
    /\ LET r == get_market_regime(call.candles_df, call.adx)
       IN  /\ result' = [raised |-> FALSE, value |-> r.value]
           /\ trace' = r.trace
           /\ locals' = NoLocals
    /\ UNCHANGED call
    /\ RiskUnchanged

MaCrossoverSignal ==
    /\ locals = Pending
    /\ call.op = "_ma_crossover_signal"
    /\ LET r == _ma_crossover_signal(call.candles_df, call.sma)
       IN  /\ result' = [raised |-> FALSE, value |-> r.value]
           /\ trace' = r.trace
           /\ locals' = NoLocals
    /\ UNCHANGED call
    /\ RiskUnchanged

BbRsiSignal ==
    /\ locals = Pending
    /\ call.op = "_bb_rsi_signal"
    /\ LET r == _bb_rsi_signal(call.candles_df, call.last_price, call.bb)
       IN  /\ result' = [raised |-> FALSE, value |-> r.value]
           /\ trace' = r.trace
           /\ locals' = NoLocals
    /\ UNCHANGED call
    /\ RiskUnchanged

VolumeConfirmation ==
    /\ locals = Pending
    /\ call.op = "_volume_confirmation"
    /\ result' = [raised |-> FALSE, value |-> _volume_confirmation(call.candles_df)]
    /\ trace' = <<>>
    /\ locals' = NoLocals
    /\ UNCHANGED call
    /\ RiskUnchanged

NextSignal ==
    GetSignal \/ GetMarketRegime \/ MaCrossoverSignal \/ BbRsiSignal \/ VolumeConfirmation

SpecSignal == InitSignal /\ [][NextSignal]_vars

----------------------------------------------------------------------------
(* Claims about the Signal Engine, checked under SpecSignal *)

Returned(op) == call.op = op /\ locals # Pending

\* C8: the trend rule returns BUY exactly when the series has at least
\* slow_period + 2 bars, none of the four compared values is NaN, the fast SMA
\* was below or equal to the slow SMA on the prior bar and is strictly above it
\* on the latest bar; SELL exactly on the mirrored condition; HOLD otherwise.
C8_TrendRule ==
    Returned("_ma_crossover_signal") =>
        LET f == call.candles_df
            s == call.sma
            usable == /\ f.rows >= MA_SLOW_PERIOD + 2
                      /\ "close" \in f.cols
                      /\ s.k = "ok"
                      /\ ~s.fast_none /\ ~s.slow_none
                      /\ IsNum(s.prev_fast) /\ IsNum(s.prev_slow)
                      /\ IsNum(s.last_fast) /\ IsNum(s.last_slow)
            up == usable /\ RatLe(s.prev_fast, s.prev_slow)
                         /\ RatLt(s.last_slow, s.last_fast)
            down == usable /\ RatLe(s.prev_slow, s.prev_fast)
                           /\ RatLt(s.last_fast, s.last_slow)
        IN  /\ result.value[1] = "BUY" <=> up
            /\ result.value[1] = "SELL" <=> down
            /\ (~up /\ ~down) => result.value[1] = "HOLD"

\* C9: get_market_regime returns UNKNOWN when the series has fewer than
\* ADX_PERIOD + 1 bars, the latest ADX is null/NaN or the computation fails;
\* otherwise TREND exactly when the latest ADX exceeds the threshold, else RANGE.
C9_Regime ==
    Returned("get_market_regime") =>
        LET f == call.candles_df
            unknown == \/ f.none
                       \/ f.rows < ADX_PERIOD + 1
                       \/ ~(HLC \subseteq f.cols)
                       \/ call.adx.k # "num"
        IN  IF unknown THEN result.value = "UNKNOWN"
            ELSE IF RatLt(Num(ADX_TREND_THRESHOLD), call.adx)
                 THEN result.value = "TREND"
                 ELSE result.value = "RANGE"

InTrace(name) == \E i \in 1..Len(trace) : trace[i] = name

\* C10: get_signal returns BUY or SELL only if the dispatched rule produced
\* that decision and the volume filter confirmed it; a BUY/SELL the filter
\* rejects is returned as HOLD with a reason citing the volume rejection; a
\* HOLD of the rule is returned unchanged and the filter is not consulted.
C10_VolumeGate ==
    (Returned("get_signal") /\ locals.op = "get_signal")
        => /\ ~result.raised
           /\ result.value[1] \in {"BUY", "SELL"} =>
                 /\ locals.signal = result.value[1]
                 /\ result.value[2] = locals.reason
                 /\ locals.volume_confirmed
                 /\ InTrace("volume")
           /\ (locals.signal \in {"BUY", "SELL"} /\ ~locals.volume_confirmed) =>
                 /\ result.value[1] = "HOLD"
                 /\ result.value[2].kind = "rejected by volume filter"
                 /\ result.value[2].volume_reason = locals.volume_reason
           /\ locals.signal = "HOLD" =>
                 /\ result.value = <<"HOLD", locals.reason>>
                 /\ ~InTrace("volume")

\* a SELL of the range rule that the volume filter rejects
C10_Witness ==
    /\ Returned("get_signal")
    /\ locals.op = "get_signal"
    /\ locals.regime = "RANGE"
    /\ locals.signal = "SELL"
    /\ ~locals.volume_confirmed
    /\ result.value[1] = "HOLD"

\* a BUY of the trend rule that the volume filter confirms
C10_WitnessConfirmed ==
    /\ Returned("get_signal")
    /\ locals.op = "get_signal"
    /\ locals.regime = "TREND"
    /\ locals.signal = "BUY"
    /\ locals.volume_confirmed
    /\ locals.volume_reason.k = "None"
    /\ InTrace("volume")
    /\ result.value[1] = "BUY"

\* the trailing window _volume_confirmation looks at
WindowOf(f) ==
    IF VOLUME_CONFIRMATION_WINDOW < f.rows THEN VOLUME_CONFIRMATION_WINDOW ELSE f.rows

\* C11: with a usable volume column, a window of at least 3 bars and a non-zero
\* baseline (mean volume of the window without its last bar), the filter
\* confirms iff the last bar's volume >= baseline * spike_factor; equality
\* confirms, one unit below rejects with a reason.
C11_VolumeBoundary ==
    LET f == call.candles_df
        v == f.vol
    IN  (Returned("_volume_confirmation") /\ "volume" \in f.cols /\ ~v.allnan
            /\ WindowOf(f) >= 3 /\ v.prev_n > 0 /\ v.prev_sum # 0)
        => LET spike == /\ v.last.k = "num"
                        /\ v.last.n * v.prev_n * VOLUME_SPIKE_FACTOR.d
                               >= v.prev_sum * VOLUME_SPIKE_FACTOR.n * v.last.d
           IN  /\ result.value[1] <=> spike
               /\ result.value[1] => result.value[2].k = "None"
               /\ ~result.value[1] => result.value[2].kind = "volume below required"

\* baseline 10 over 19 bars, last volume 12 = 10 * 1.2: confirmed
C11_Witness ==
    /\ Returned("_volume_confirmation")
    /\ call.candles_df.rows = MIN_CANDLES_FOR_SIGNAL
    /\ call.candles_df.vol.prev_n = VOLUME_CONFIRMATION_WINDOW - 1
    /\ call.candles_df.vol.prev_sum = 10 * (VOLUME_CONFIRMATION_WINDOW - 1)
    /\ call.candles_df.vol.last = Num(12)
    /\ result.value[1]

\* one unit below: rejected, the reason names 11 against the required 12
C11_WitnessBelow ==
    /\ Returned("_volume_confirmation")
    /\ call.candles_df.vol.prev_n = VOLUME_CONFIRMATION_WINDOW - 1
    /\ call.candles_df.vol.prev_sum = 10 * (VOLUME_CONFIRMATION_WINDOW - 1)
    /\ call.candles_df.vol.last = Num(11)
    /\ result.value = <<FALSE, [kind |-> "volume below required", volume |-> Num(11),
                                required |-> Num(12)]>>

\* C12: on at least bb_period + rsi_period bars with non-NaN bands and RSI, the
\* range rule returns BUY exactly when last_price < lower band and RSI <
\* oversold, SELL exactly when last_price > upper band and RSI > overbought,
\* HOLD otherwise; a price between the bands (inclusive) gives HOLD for any RSI.
C12_RangeRule ==
    LET b == call.bb
        p == call.last_price
    IN  (Returned("_bb_rsi_signal")
            /\ call.candles_df.rows >= BB_PERIOD + RSI_PERIOD
            /\ "close" \in call.candles_df.cols
            /\ b.k = "ok" /\ ~b.bb_none /\ ~b.rsi_none /\ b.has_cols
            /\ b.lower_band.k = "num" /\ b.upper_band.k = "num" /\ b.rsi.k = "num"
            /\ p.k = "num")
        => LET buy == /\ p.n * b.lower_band.d < b.lower_band.n * p.d
                      /\ b.rsi.n < RSI_OVERSOLD * b.rsi.d
               sell == /\ p.n * b.upper_band.d > b.upper_band.n * p.d
                       /\ b.rsi.n > RSI_OVERBOUGHT * b.rsi.d
               between == /\ p.n * b.lower_band.d >= b.lower_band.n * p.d
                          /\ p.n * b.upper_band.d <= b.upper_band.n * p.d
           IN  /\ result.value[1] = "BUY" <=> buy
               /\ result.value[1] = "SELL" <=> sell
               /\ (~buy /\ ~sell) => result.value[1] = "HOLD"
               /\ between => result.value[1] = "HOLD"

\* price 9 below the lower band 10 with RSI 29: BUY
C12_Witness ==
    /\ Returned("_bb_rsi_signal")
    /\ call.last_price = Num(9)
    /\ call.bb.k = "ok"
    /\ call.bb.lower_band = Num(10)
    /\ call.bb.rsi = Num(RSI_OVERSOLD - 1)
    /\ result.value[1] = "BUY"

\* price 9 below the lower band but RSI exactly at the threshold: HOLD
C12_WitnessPriceOnly ==
    /\ Returned("_bb_rsi_signal")
    /\ call.last_price = Num(9)
    /\ call.bb.k = "ok"
    /\ call.bb.lower_band = Num(10)
    /\ call.bb.rsi = Num(RSI_OVERSOLD)
    /\ result.value[1] = "HOLD"

\* C13: a series that after preparation has fewer rows than the minimum,
\* an empty or null series included, makes get_signal return HOLD without
\* classifying the regime or evaluating any rule.
C13_ShortSeriesHolds ==
    LET f == call.candles_df
    IN  (Returned("get_signal")
            /\ (f.none \/ f.rows = 0
                \/ (HLC \subseteq f.cols /\ f.rows - f.bad < MIN_CANDLES_FOR_SIGNAL)))
        => /\ ~result.raised
           /\ result.value[1] = "HOLD"
           /\ trace = <<>>
           /\ locals.regime = "none"
           /\ locals.signal = "none"

\* 60 rows of which one lacks a price: 59 remain
C13_Witness ==
    /\ Returned("get_signal")
    /\ call.candles_df.rows = MIN_CANDLES_FOR_SIGNAL
    /\ call.candles_df.bad = 1
    /\ result.value[1] = "HOLD"
    /\ trace = <<>>

\* C14: get_signal dispatches by regime: UNKNOWN gives HOLD with neither rule
\* nor the volume filter evaluated; TREND takes its decision from the
\* moving-average rule only, RANGE from the Bollinger+RSI rule only; the two
\* rules are never both evaluated in one call.
C14_ExclusiveDispatch ==
    (Returned("get_signal") /\ locals.op = "get_signal")
        => /\ ~(InTrace("sma") /\ (InTrace("bbands") \/ InTrace("rsi")))
           /\ locals.regime \in {"none", "UNKNOWN", "TREND", "RANGE"}
           /\ locals.regime \in {"none", "UNKNOWN"} =>
                 /\ result.value[1] = "HOLD"
                 /\ ~InTrace("sma") /\ ~InTrace("bbands") /\ ~InTrace("rsi")
                 /\ ~InTrace("volume")
           /\ locals.regime = "TREND" =>
                 /\ InTrace("sma") /\ ~InTrace("bbands") /\ ~InTrace("rsi")
                 /\ locals.signal \in {"BUY", "SELL"} =>
                       locals.reason.kind \in {"MA cross up", "MA cross down"}
           /\ locals.regime = "RANGE" =>
                 /\ InTrace("bbands") /\ InTrace("rsi") /\ ~InTrace("sma")
                 /\ locals.signal \in {"BUY", "SELL"} =>
                       locals.reason.kind \in {"price below BB and RSI oversold",
                                               "price above BB and RSI overbought"}

\* regime TREND, the crossover rule says SELL, the Bollinger answers would
\* have said nothing
C14_Witness ==
    /\ Returned("get_signal")
    /\ locals.op = "get_signal"
    /\ locals.regime = "TREND"
    /\ locals.signal = "SELL"
    /\ trace[1] = "adx" /\ trace[2] = "sma"

C14_WitnessUnknown ==
    /\ Returned("get_signal")
    /\ locals.op = "get_signal"
    /\ locals.regime = "UNKNOWN"
    /\ trace = <<"adx">>
    /\ result.value[1] = "HOLD"

----------------------------------------------------------------------------
(* Claims about the fetches of the Risk Engine, checked under Spec *)

Count(seq, name) == Cardinality({i \in 1..Len(seq) : seq[i] = name})

\* C15: when the balance fetch or the instrument-metadata fetch fails,
\* calculate_position_size returns 0; a failed balance fetch is never replaced
\* by a substitute balance that could yield a positive size; no fetch is retried.
C15_FetchFailureNoTrade ==
    (IsSizing /\ trace # <<>>
        /\ (call.api.portfolio.k = "error" \/ call.api.instrument.k = "error"))
        => /\ result.value = 0
           /\ call.api.portfolio.k = "error" => ~RatLt(Zero, SizingBalance)
           /\ Count(trace, "get_account_balance") <= 1
           /\ Count(trace, "get_instrument_info") <= 1

----------------------------------------------------------------------------
(* main.py: the control functions, the trading cycle and the loop of main() *)

start_trading(active) == IF ~active THEN TRUE ELSE active
stop_trading(active) == IF active THEN FALSE ELSE active

\* `if trading_active:` of the while-loop
cycle_due_always(active) == TRUE
cycle_due(active) == active

\* where main() goes on when trading_cycle raised: the except-branch of the loop
after_cycle_exception_escapes == "terminated"
after_cycle_exception == "report"

\* one entry of the log of a trading cycle: what was done, for which figi, with
\* which value, and what trading_active held at that moment
Ev(e, figi, v, active) == [e |-> e, figi |-> figi, v |-> v, active |-> active]

\* the parameters of TinkoffClient.post_stop_order after self, none with a default
PostStopOrderParams ==
    <<"figi", "quantity", "stop_price", "direction", "stop_order_type">>
\* the arguments trading_cycle passes to it
StopOrderArgs == <<"figi", "quantity", "price", "direction">>

\* a call that leaves a parameter without a value raises TypeError at the call
binds(args, params) == Len(args) = Len(params)

CycleRet(raised, evs, counts, cache) ==
    [raised |-> raised, events |-> evs, counts |-> counts, cache |-> cache]

\* an exception leaves trading_cycle
Raise(evs, figi, what, active, counts, cache) ==
    CycleRet(TRUE, Append(evs, Ev("exception", figi, what, active)), counts, cache)

\* trading_cycle after record_trade: the levels and the two stop orders
place_stops(evs, counts, cache, figi, quantity, levels, active) ==
    IF levels.raised THEN Raise(evs, figi, levels.value, active, counts, cache)
    ELSE IF ~binds(StopOrderArgs, PostStopOrderParams)
    THEN Raise(Append(evs, Ev("calculate_sl_tp", figi, levels.value, active)),
               figi, "TypeError", active, counts, cache)
    ELSE CycleRet(FALSE,
                  evs \o <<Ev("calculate_sl_tp", figi, levels.value, active),
                           Ev("post_stop_order", figi, <<quantity, levels.value[1]>>,
                              active),
                           Ev("post_stop_order", figi, <<quantity, levels.value[2]>>,
                              active)>>,
                  counts, cache)

\* trading_cycle under `if position_size_lots > 0:`
enter_trade(evs, counts, fetched, figi, lots, signal, last_price, order_ok, active) ==
    IF fetched.info.k = "None"                                      \* None['lot']
    THEN Raise(Append(evs, Ev("get_instrument_info", figi, 0, active)),
               figi, "TypeError", active, counts, fetched.cache)
    ELSE IF ~order_ok
    THEN CycleRet(FALSE,
                  evs \o <<Ev("get_instrument_info", figi, 0, active),
                           Ev("post_market_order", figi, lots, active)>>,
                  counts, fetched.cache)
    ELSE place_stops(evs \o <<Ev("get_instrument_info", figi, 0, active),
                              Ev("post_market_order", figi, lots, active),
                              Ev("record_trade", figi, 0, active)>>,
                     record_trade(counts, figi), fetched.cache, figi,
                     lots * fetched.info.lot,
                     calculate_sl_tp(last_price, signal, NoFrame, None), active)

\* trading_cycle under `if signal != "HOLD":`, once the size is known
size_trade(evs, counts, sized, figi, signal, last_price, inp, active) ==
    IF ~(sized.value > 0)
    THEN CycleRet(FALSE,
                  Append(evs, Ev("calculate_position_size", figi, sized.value, active)),
                  counts, sized.cache)
    ELSE enter_trade(Append(evs, Ev("calculate_position_size", figi, sized.value,
                                    active)),
                     counts, get_instrument_info(sized.cache, figi, inp.api), figi,
                     sized.value, signal, last_price, inp.order_ok, active)

\* trading_cycle once get_signal has answered
act_on_signal(evs, counts, cache, figi, got, last_price, inp, active) ==
    IF got.raised THEN Raise(evs, figi, got.value, active, counts, cache)
    ELSE IF got.value[1] = "HOLD"
    THEN CycleRet(FALSE, Append(evs, Ev("get_signal", figi, "HOLD", active)),
                  counts, cache)
    ELSE size_trade(Append(evs, Ev("get_signal", figi, got.value[1], active)),
                    counts,
                    calculate_position_size(counts, cache, figi, last_price, NoFrame,
                                            inp.api),
                    figi, got.value[1], last_price, inp, active)

\* the body of the for-loop of trading_cycle for one instrument; inp holds the
\* answers of the brokerage, of pandas and of the indicator library
process_instrument(counts, cache, figi, inp, active) ==
    IF inp.last_price.k = "None" \/ inp.last_price = Zero
    THEN CycleRet(FALSE, <<>>, counts, cache)                      \* continue
    ELSE IF inp.candles < 50                                        \* continue
    THEN CycleRet(FALSE, <<Ev("get_historical_candles", figi, inp.candles, active)>>,
                  counts, cache)
    ELSE IF ~inp.frame_ok
    THEN Raise(<<Ev("get_historical_candles", figi, inp.candles, active)>>,
               figi, "pandas", active, counts, cache)
    ELSE act_on_signal(<<Ev("get_historical_candles", figi, inp.candles, active)>>,
                       counts, cache, figi,
                       get_signal(SignalFrame(inp.candles, OHLCV, TRUE, 0, inp.vol),
                                  inp.last_price, inp.lib),
                       inp.last_price, inp, active)

----------------------------------------------------------------------------
(* Inputs of the trading cycle *)

BuyLib == Lib(Num(ADX_TREND_THRESHOLD + 1),
              SmaOk(FALSE, FALSE, Num(1), Num(2), Num(3), Num(2)), DefaultBb)
HoldLib == Lib(Num(ADX_TREND_THRESHOLD + 1), DefaultSma, DefaultBb)
SellLib == Lib(Num(ADX_TREND_THRESHOLD), DefaultSma,
               BbOk(FALSE, FALSE, TRUE, Num(10), Num(20), Num(RSI_OVERBOUGHT + 1)))
SpikeVol == [allnan |-> FALSE, prev_n |-> VOLUME_CONFIRMATION_WINDOW - 1,
             prev_sum |-> 10 * (VOLUME_CONFIRMATION_WINDOW - 1), last |-> Num(13)]

CycleInput(p, n, ok, v, lib, api, order_ok) ==
    [last_price |-> p, candles |-> n, frame_ok |-> ok, vol |-> v, lib |-> lib,
     api |-> api, order_ok |-> order_ok]
QuietApi == [portfolio |-> Num(50000), instrument |-> Lot(10), atr |-> None]

CycleInputs ==
    {CycleInput(p, 60, TRUE, SpikeVol, HoldLib, QuietApi, TRUE) : p \in {None, Zero}}
    \cup {CycleInput(Num(100), n, ok, SpikeVol, HoldLib, QuietApi, TRUE) :
            n \in {0, 49, 50, 60}, ok \in BOOLEAN}
    \cup {CycleInput(Num(100), 60, TRUE, NoVol, BuyLib, QuietApi, TRUE)}
    \cup {CycleInput(Num(100), 60, TRUE, SpikeVol, lib,
                     [portfolio |-> b, instrument |-> i, atr |-> None], o) :
            lib \in {BuyLib, SellLib}, b \in {ApiError, Num(50000)},
            i \in Instruments, o \in BOOLEAN}

----------------------------------------------------------------------------
(* main() from its while-loop on, with the Telegram thread beside it *)

InitCycle ==
    /\ daily_trade_counts = reset_daily_counts(EmptyDict)
    /\ instrument_info_cache = EmptyDict
    /\ call = [op |-> "main"]
    /\ result = [raised |-> FALSE, value |-> None]
    /\ trace = <<>>
    /\ locals = NoLocals
    /\ recorded = [f \in Figis |-> 0]
    /\ resetAfterLimit = {}
    /\ trading_active = FALSE
    /\ top_instruments \in {<<>>, <<"X", "Y">>}
    /\ pc = "run_pending"
    /\ cycle_idx = 0
    /\ events = <<>>
    /\ last_cmd = "none"

EnginesIdle == UNCHANGED <<call, result, trace, locals, recorded, resetAfterLimit>>
Running == pc \notin {"off", "terminated"}

\* telegram_bot.start_command, in the Telegram thread
StartCommand ==
    /\ Running
    /\ trading_active' = start_trading(trading_active)
    /\ last_cmd' = "start"
    /\ UNCHANGED <<daily_trade_counts, instrument_info_cache, top_instruments, pc,
                   cycle_idx, events>>
    /\ EnginesIdle

\* telegram_bot.stop_command, in the Telegram thread
StopCommand ==
    /\ Running
    /\ trading_active' = stop_trading(trading_active)
    /\ last_cmd' = "stop"
    /\ UNCHANGED <<daily_trade_counts, instrument_info_cache, top_instruments, pc,
                   cycle_idx, events>>
    /\ EnginesIdle

\* schedule.run_pending() with no job due
RunPendingIdle ==
    /\ pc = "run_pending"
    /\ pc' = "check_active"
    /\ UNCHANGED <<daily_trade_counts, instrument_info_cache, trading_active,
                   top_instruments, cycle_idx, events, last_cmd>>
    /\ EnginesIdle

\* schedule.run_pending() with the 00:01 job due
RunPendingReset ==
    /\ pc = "run_pending"
    /\ daily_trade_counts' = reset_daily_counts(daily_trade_counts)
    /\ call' = [op |-> "reset_daily_counts"]
    /\ pc' = "check_active"
    /\ UNCHANGED <<instrument_info_cache, trading_active, top_instruments,
                   cycle_idx, events, last_cmd>>
    /\ UNCHANGED <<result, trace, locals, recorded, resetAfterLimit>>

\* schedule.run_pending() with the 09:00 job due: asyncio.run() is called while
\* the loop of main() runs and raises RuntimeError, outside of any try
RunPendingSelect ==
    /\ pc = "run_pending"
    /\ pc' = "terminated"
    /\ UNCHANGED <<daily_trade_counts, instrument_info_cache, trading_active,
                   top_instruments, cycle_idx, events, last_cmd>>
    /\ EnginesIdle

\* `if trading_active:` and the call of trading_cycle
CheckActive ==
    /\ pc = "check_active"
    /\ pc' = IF cycle_due(trading_active) THEN "cycle_start" ELSE "sleep"
    /\ UNCHANGED <<daily_trade_counts, instrument_info_cache, trading_active,
                   top_instruments, cycle_idx, events, last_cmd>>
    /\ EnginesIdle

\* trading_cycle up to its for-loop
CycleStart ==
    /\ pc = "cycle_start"
    /\ \E prices_ok \in BOOLEAN :
        IF top_instruments = <<>> \/ ~prices_ok
        THEN /\ pc' = "sleep"
             /\ cycle_idx' = 0
             /\ events' = <<>>
        ELSE /\ pc' = "cycle"
             /\ cycle_idx' = 1
             /\ events' = <<Ev("get_last_prices", "", 0, trading_active)>>
    /\ UNCHANGED <<daily_trade_counts, instrument_info_cache, trading_active,
                   top_instruments, last_cmd>>
    /\ EnginesIdle

\* what a pass of the for-loop leaves behind: the next instrument, the end of
\* the cycle, or the exception on its way to main()
pass_done(r) ==
    /\ events' = events \o r.events
    /\ daily_trade_counts' = r.counts
    /\ instrument_info_cache' = r.cache
    /\ pc' = IF r.raised THEN after_cycle_exception
             ELSE IF cycle_idx = Len(top_instruments) THEN "sleep"
             ELSE "cycle"
    /\ cycle_idx' = IF r.raised \/ cycle_idx = Len(top_instruments)
                    THEN cycle_idx ELSE cycle_idx + 1

\* one pass of the for-loop of trading_cycle
ProcessInstrument ==
    /\ pc = "cycle"
    /\ UNCHANGED <<trading_active, top_instruments, last_cmd>>
    /\ EnginesIdle
    /\ \E inp \in CycleInputs :
        pass_done(process_instrument(daily_trade_counts, instrument_info_cache,
                                     top_instruments[cycle_idx], inp, trading_active))

\* the except-branch: logging.error and telegram_bot.send_message
ReportError ==
    /\ pc = "report"
    /\ events' = Append(events, Ev("send_message", "", 0, trading_active))
    /\ pc' = "sleep"
    /\ UNCHANGED <<daily_trade_counts, instrument_info_cache, trading_active,
                   top_instruments, cycle_idx, last_cmd>>
    /\ EnginesIdle

\* await asyncio.sleep(15), and back to the head of the while-loop
Sleep ==
    /\ pc = "sleep"
    /\ pc' = "run_pending"
    /\ UNCHANGED <<daily_trade_counts, instrument_info_cache, trading_active,
                   top_instruments, cycle_idx, events, last_cmd>>
    /\ EnginesIdle

MainStep ==
    \/ RunPendingIdle
    \/ RunPendingReset
    \/ RunPendingSelect
    \/ CheckActive
    \/ CycleStart
    \/ ProcessInstrument
    \/ ReportError
    \/ Sleep

NextCycle == MainStep \/ StartCommand \/ StopCommand

SpecCycle == InitCycle /\ [][NextCycle]_vars

----------------------------------------------------------------------------
(* The trading cycle and the loop, checked under SpecCycle *)

Did(e) == {i \in 1..Len(events) : events[i].e = e}
OrderEvents == {"post_market_order", "post_stop_order"}

\* calculate_position_size answers 0 to every call of the cycle, so the branch
\* `if position_size_lots > 0:` of trading_cycle is never entered
NoOrderIsSubmitted ==
    /\ \A i \in 1..Len(events) :
        events[i].e \notin OrderEvents \cup {"record_trade", "calculate_sl_tp",
                                             "get_instrument_info"}
    /\ \A i \in Did("calculate_position_size") : events[i].v = 0
    /\ daily_trade_counts = EmptyDict

\* the entries of the cycle log that are about figi f
About(f, names) == {i \in 1..Len(events) : events[i].figi = f /\ events[i].e \in names}

\* C16: for each instrument with a non-HOLD decision the caller obtains the
\* position size and computes the stop-loss / take-profit levels from the Risk
\* Engine, and no order for that instrument is submitted before both exist.
C16_RiskBeforeOrders ==
    \A i \in Did("get_signal") :
        events[i].v # "HOLD" =>
            LET f == events[i].figi
                sizes == About(f, {"calculate_position_size"})
                levels == About(f, {"calculate_sl_tp"})
            IN  /\ sizes # {}
                /\ levels # {}
                /\ \A o \in About(f, OrderEvents) :
                    /\ \E a \in sizes : a < o
                    /\ \E b \in levels : b < o

\* C18: the Daily Trade Counter of no instrument exceeds
\* MAX_TRADES_PER_INSTRUMENT_PER_DAY, whatever cycles and daily resets ran;
\* record_trade follows an accepted market order, and a market order follows a
\* non-HOLD signal and a sizing call that answered a positive lot count.
C18_CounterBounded ==
    /\ \A f \in Figis :
        Get(daily_trade_counts, f, 0) <= MAX_TRADES_PER_INSTRUMENT_PER_DAY
    /\ \A i \in Did("record_trade") :
        /\ i > 1
        /\ events[i - 1].e = "post_market_order"
        /\ events[i - 1].figi = events[i].figi
    /\ \A i \in Did("post_market_order") :
        /\ \E j \in About(events[i].figi, {"get_signal"}) :
            j < i /\ events[j].v # "HOLD"
        /\ \E j \in About(events[i].figi, {"calculate_position_size"}) :
            j < i /\ events[j].v > 0

\* cycles with sizing calls have run and the 00:01 job has reset the counters
C18_Witness ==
    /\ call.op = "reset_daily_counts"
    /\ pc = "sleep"
    /\ About("X", {"calculate_position_size"}) # {}
    /\ About("Y", {"calculate_position_size"}) # {}

\* C19: a trading cycle starts only where the loop reads trading_active = true,
\* which it is only after start_trading and not after a later stop_trading;
\* nothing runs before the first /start; a control call changes nothing of a
\* cycle in progress, which ends only with its last instrument or an
\* exception; both control calls leave the flag the same however often called.
C19_ActiveGate ==
    [][ /\ (pc = "check_active" /\ pc' = "cycle_start")
            => (trading_active /\ last_cmd = "start")
        /\ (pc' = "cycle_start" /\ pc # "cycle_start") => pc = "check_active"
        /\ last_cmd' = "none"
            => (~trading_active' /\ events' = <<>>
                /\ pc' \notin {"cycle_start", "cycle", "report"})
        /\ (pc = "cycle" /\ pc' # "cycle")
            => (pc' = "report" \/ cycle_idx = Len(top_instruments))
        /\ (trading_active' # trading_active \/ last_cmd' # last_cmd)
            => UNCHANGED <<pc, cycle_idx, events, daily_trade_counts>>
        /\ last_cmd' = "start" => trading_active'
        /\ last_cmd' = "stop" => ~trading_active'
      ]_vars

\* stop_trading ran while a cycle was in progress, and the cycle went on to
\* evaluate an instrument with the flag already false
C19_Witness ==
    /\ pc = "cycle"
    /\ last_cmd = "stop"
    /\ ~trading_active
    /\ \E i \in Did("get_signal") : ~events[i].active

\* C20: an exception raised for one instrument ends that cycle with the
\* counters kept, and never ends the loop: the loop reports it, sleeps, and
\* every iteration it begins afterwards comes to its test of trading_active,
\* where a true flag starts a new trading cycle.
C20_LoopSurvives ==
    [][ /\ (pc = "cycle" /\ events' # events
                /\ events'[Len(events')].e = "exception")
            => /\ pc' = "report"
               /\ \A f \in Figis :
                   Get(daily_trade_counts', f, 0) >= Get(daily_trade_counts, f, 0)
        /\ pc = "report"
            => /\ pc' \in {"report", "sleep"}
               /\ daily_trade_counts' = daily_trade_counts
        /\ (Did("send_message") # {} /\ pc = "sleep")
            => pc' \in {"sleep", "run_pending"}
        /\ (Did("send_message") # {} /\ pc = "run_pending")
            => pc' \in {"run_pending", "check_active"}
        /\ (pc = "check_active" /\ pc' # pc /\ trading_active)
            => pc' = "cycle_start"
      ]_vars

====
